---- MODULE Spec2Model ----
(***************************************************************************)
(* Pre/post network change verifications (pyATS aetest scripts).           *)
(*                                                                         *)
(* interface_verifications.py and config_verifications.py are started as   *)
(* two concurrent tasks by pre_check.py / post_check.py, or run on their   *)
(* own; common_setup_cleanup.py is the shared setup/cleanup script.  The   *)
(* tasks share nothing but the file system (the pre and post report        *)
(* directories and the <device>_<kind>.json snapshots in them).            *)
(*                                                                         *)
(* aetest semantics used by the model:                                     *)
(*  - self.passed/failed/skipped and step.passed/failed/skipped raise a    *)
(*    signal: the section (or the innermost open step) ends there;         *)
(*  - an exception that escapes a section or step makes it Errored;        *)
(*  - a step opened with continue_=True lets the section go on;            *)
(*  - a step that ends without a signal is Passed;                         *)
(*  - after a subsection that Failed or Errored the remaining subsections  *)
(*    of the common setup and all testcases are Blocked; a Skipped         *)
(*    subsection blocks nothing; the common cleanup always runs;           *)
(*  - the tests of a testcase are Blocked when its setup section Failed.   *)
(***************************************************************************)
EXTENDS Integers, Sequences, FiniteSets, TLC

(***************************************************************************)
(* Bounds of the model.                                                    *)
(***************************************************************************)
MaxRuns == 2
MaxCounter == 2

\* the longest configuration document, in top-level lines
MaxLen == 3

(***************************************************************************)
(* Python dictionaries are functions; a missing key is a key outside the   *)
(* DOMAIN.                                                                 *)
(***************************************************************************)
EmptyMap == [x \in {} |-> 0]

HasKey(m, k) == k \in DOMAIN m

(***************************************************************************)
(* Class attributes of the interface testcases.                            *)
(***************************************************************************)
counter_error_keys ==
    <<"in_crc_errors", "in_errors", "out_errors", "in_discards", "out_discard", "in_unknown_protos">>

rate_counters_keys == <<"in_rate_pkts", "out_rate_pkts">>

\* ("down") is a str, not a tuple: `x in down_oper_status_values` is a
\* substring test against "down".
down_oper_status_values ==
    {"", "d", "o", "w", "n", "do", "ow", "wn", "dow", "own", "down"}

(***************************************************************************)
(* The result of one step (one interface of one device in one test).       *)
(*   result : passed | failed | skipped | errored                          *)
(*   rule   : the check that ended the step                                *)
(*   reason : which message the step carries                               *)
(*   detail : the counters (name -> value) the message reports             *)
(***************************************************************************)
Verdict(result, rule, reason, detail) ==
    [result |-> result, rule |-> rule, reason |-> reason, detail |-> detail]

NoVerdict == Verdict("none", "none", "none", EmptyMap)

\* self.pre_learnt_interfaces[device_name][interface_name] does not raise KeyError
PreHasInterface(pre, device_name, interface_name) ==
    /\ HasKey(pre, device_name)
    /\ HasKey(pre[device_name], interface_name)

\* ...[interface_name][field] does not raise KeyError
PreHasField(pre, device_name, interface_name, field) ==
    /\ PreHasInterface(pre, device_name, interface_name)
    /\ HasKey(pre[device_name][interface_name], field)

\* a variant that never finds the counter in the pre snapshot;
\* C18_SingleCounterRise does not hold with it
PreHasCounter_Never(pre, device_name, interface_name, counter) == FALSE

\* ...[interface_name]['counters'][counter] does not raise KeyError
PreHasCounter(pre, device_name, interface_name, counter) ==
    /\ PreHasField(pre, device_name, interface_name, "counters")
    /\ HasKey(pre[device_name][interface_name]["counters"], counter)

\* ...[interface_name]['counters']['rate'][rate_counter] does not raise KeyError
PreHasRate(pre, device_name, interface_name, rate_counter) ==
    /\ PreHasCounter(pre, device_name, interface_name, "rate")
    /\ HasKey(pre[device_name][interface_name]["counters"]["rate"], rate_counter)

(***************************************************************************)
(* interface_errors.interface_errors, the body of one interface step.      *)
(***************************************************************************)
\* a variant that also looks at counters equal to 0; C8_PreOnlyCounters
\* does not hold with it
CounterIsChecked_AlsoZero(value) == value >= 0

\* a counter is looked at only when its value is greater than 0
CounterIsChecked(value) == value > 0

\* a variant that takes every counter greater than 0 as a difference;
\* C28_EqualCountersPass does not hold with it
CounterDiffers_Absolute(value, pre_value) == TRUE

\* a counter of the post stage is reported when it is not the pre value
CounterDiffers(value, pre_value) == value # pre_value

\* the loop over counter_error_keys; acc.keyerror names the counter whose
\* pre lookup raised KeyError (the step ends there)
RECURSIVE ScanCounters(_, _, _, _, _, _, _)
ScanCounters(i, post, device_name, interface_name, interface, pre, acc) ==
    IF i > Len(counter_error_keys) THEN acc
    ELSE
      LET counter == counter_error_keys[i]
          counters == interface["counters"]
          next(a) == ScanCounters(i + 1, post, device_name, interface_name, interface, pre, a)
      IN  IF ~HasKey(counters, counter) THEN next(acc)
          ELSE IF ~CounterIsChecked(counters[counter]) THEN next(acc)
          ELSE IF post
               THEN IF ~PreHasCounter(pre, device_name, interface_name, counter)
                    THEN [acc EXCEPT !.keyerror = counter]
                    ELSE IF CounterDiffers(counters[counter],
                                           pre[device_name][interface_name]["counters"][counter])
                         THEN next([acc EXCEPT !.post = @ @@ (counter :> counters[counter])])
                         ELSE next(acc)
               ELSE next([acc EXCEPT !.pre = @ @@ (counter :> counters[counter])])

interface_errors_step(post, device_name, interface_name, interface, pre) ==
    IF ~HasKey(interface, "counters")
    THEN Verdict("skipped", "counter", "missing counters", EmptyMap)
    ELSE
      LET failed_counters ==
              ScanCounters(1, post, device_name, interface_name, interface, pre,
                           [keyerror |-> "", post |-> EmptyMap, pre |-> EmptyMap])
      IN  IF failed_counters.keyerror # ""
          THEN Verdict("failed", "counter", "no pre learnt information",
                       failed_counters.keyerror :> interface["counters"][failed_counters.keyerror])
          ELSE IF DOMAIN failed_counters.post # {}
               THEN Verdict("failed", "counter", "difference between pre and post", failed_counters.post)
               ELSE IF DOMAIN failed_counters.pre # {}
                    THEN Verdict("failed", "counter", "has a count", failed_counters.pre)
                    ELSE Verdict("passed", "counter", "no count", EmptyMap)

(***************************************************************************)
(* interface_or_traffic_down.interface_or_traffic_down, one interface      *)
(* step: the oper_status part, then the rate part unless the step ended.   *)
(***************************************************************************)
\* a variant that takes every status other than "up" as down;
\* C10_PreOnlyStatus does not hold with it
StatusIsDown_NotUp(oper_status) == oper_status # "up"

StatusIsDown(oper_status) == oper_status \in down_oper_status_values

oper_status_part(post, device_name, interface_name, interface, pre) ==
    IF ~HasKey(interface, "oper_status") THEN NoVerdict
    ELSE IF ~StatusIsDown(interface["oper_status"]) THEN NoVerdict
    ELSE IF post
         THEN IF ~PreHasField(pre, device_name, interface_name, "oper_status")
              THEN Verdict("failed", "status", "no pre learnt information", EmptyMap)
              ELSE IF interface["oper_status"] # pre[device_name][interface_name]["oper_status"]
                   THEN Verdict("failed", "status", "pre and post are different", EmptyMap)
                   ELSE NoVerdict
         ELSE IF ~HasKey(interface, "enabled")
              THEN Verdict("errored", "status", "KeyError", EmptyMap)
              ELSE IF interface["enabled"]
                   THEN Verdict("failed", "status", "is down", EmptyMap)
                   ELSE Verdict("skipped", "status", "admin-down", EmptyMap)

\* a variant that looks at the rate counters greater than 0;
\* C13_PreOnlyRates does not hold with it
RateIsChecked_Positive(value) == value > 0

\* a rate counter is looked at only when its value is 0
RateIsChecked(value) == value = 0

\* the loop over rate_counters_keys; acc.keyerror as in ScanCounters,
\* acc.nameerror is set where the undefined name `counter` is evaluated
RECURSIVE ScanRates(_, _, _, _, _, _, _)
ScanRates(i, post, device_name, interface_name, interface, pre, acc) ==
    IF i > Len(rate_counters_keys) THEN acc
    ELSE
      LET rate_counter == rate_counters_keys[i]
          rate == interface["counters"]["rate"]
          next(a) == ScanRates(i + 1, post, device_name, interface_name, interface, pre, a)
      IN  IF ~HasKey(rate, rate_counter) THEN next(acc)
          ELSE IF ~RateIsChecked(rate[rate_counter]) THEN next(acc)
          ELSE IF post
               THEN IF ~PreHasRate(pre, device_name, interface_name, rate_counter)
                    THEN [acc EXCEPT !.keyerror = rate_counter]
                    ELSE IF rate[rate_counter] #
                              pre[device_name][interface_name]["counters"]["rate"][rate_counter]
                         THEN [acc EXCEPT !.nameerror = TRUE]
                         ELSE next(acc)
               ELSE next([acc EXCEPT !.pre = @ @@ (rate_counter :> rate[rate_counter])])

rate_part(post, device_name, interface_name, interface, pre) ==
    IF ~HasKey(interface, "counters") THEN NoVerdict
    ELSE IF ~HasKey(interface["counters"], "rate") THEN NoVerdict
    ELSE
      LET failed_rate_counters ==
              ScanRates(1, post, device_name, interface_name, interface, pre,
                        [keyerror |-> "", nameerror |-> FALSE, post |-> EmptyMap, pre |-> EmptyMap])
      IN  IF failed_rate_counters.nameerror
          THEN Verdict("errored", "rate", "NameError", EmptyMap)
          ELSE IF failed_rate_counters.keyerror # ""
               THEN Verdict("failed", "rate", "no pre learnt information",
                            failed_rate_counters.keyerror :> 0)
               ELSE IF DOMAIN failed_rate_counters.post # {}
                    THEN Verdict("failed", "rate", "difference between pre and post",
                                 failed_rate_counters.post)
                    ELSE IF DOMAIN failed_rate_counters.pre # {}
                         THEN Verdict("failed", "rate", "has a count", failed_rate_counters.pre)
                         ELSE Verdict("passed", "rate", "has traffic counters", EmptyMap)

\* a step that ends without a signal is Passed
StepDefault(v) == IF v = NoVerdict THEN Verdict("passed", "none", "default", EmptyMap) ELSE v

interface_or_traffic_down_step(post, device_name, interface_name, interface, pre) ==
    LET status == oper_status_part(post, device_name, interface_name, interface, pre)
    IN  IF status # NoVerdict THEN status
        ELSE StepDefault(rate_part(post, device_name, interface_name, interface, pre))

(***************************************************************************)
(* interface_or_traffic_down.interface_in_half_duplex, one interface step. *)
(***************************************************************************)
\* a variant that takes every duplex_mode other than "full" as half;
\* C12_PreOnlyDuplex does not hold with it
DuplexIsHalf_NotFull(duplex_mode) == duplex_mode # "full"

DuplexIsHalf(duplex_mode) == duplex_mode = "half"

interface_in_half_duplex_step(post, device_name, interface_name, interface, pre) ==
    StepDefault(
      IF ~HasKey(interface, "duplex_mode") THEN NoVerdict
      ELSE IF ~DuplexIsHalf(interface["duplex_mode"]) THEN NoVerdict
      ELSE IF post
           THEN IF ~PreHasField(pre, device_name, interface_name, "duplex_mode")
                THEN Verdict("failed", "duplex", "no pre learnt information", EmptyMap)
                ELSE IF interface["duplex_mode"] # pre[device_name][interface_name]["duplex_mode"]
                     THEN Verdict("failed", "duplex", "pre and post are different", EmptyMap)
                     ELSE NoVerdict
           ELSE IF ~HasKey(interface, "enabled")
                THEN Verdict("errored", "duplex", "KeyError", EmptyMap)
                ELSE IF interface["enabled"]
                     THEN Verdict("failed", "duplex", "half-duplex", EmptyMap)
                     ELSE Verdict("skipped", "duplex", "admin-down", EmptyMap))

(***************************************************************************)
(* Configuration documents.  Config(config_str).tree() gives a dictionary  *)
(* in line order: a sequence of [key, sub] entries with distinct keys,     *)
(* sub the set of lines nested under the key.                              *)
(***************************************************************************)
\* CommonSetup.keys_regex_to_delete_from_config: the two patterns, by name
keys_regex_to_delete_from_config == <<"timestamp", "last_change">>

\* the lines of the modelled device output that each pattern matches
RegexMatches(key_regex, key) ==
    \/ /\ key_regex = "timestamp"
       /\ key \in {"Mon Jan 3 10:00:00.000 UTC", "Mon Jan 3 10:05:00.000 UTC"}
    \/ /\ key_regex = "last_change"
       /\ key \in {"!!10:00:00 UTC Mon Jan 3 2022"}

\* Dq(config).contains(regex, regex=True).reconstruct(): the top-level
\* entries that hold a match at any depth, in dictionary order
DqContains(config, key_regex) ==
    {i \in 1..Len(config) :
        \/ RegexMatches(key_regex, config[i].key)
        \/ \E c \in config[i].sub : RegexMatches(key_regex, c)}

Min(S) == CHOOSE x \in S : \A y \in S : x <= y

RemoveAt(seq, i) == [j \in 1..(Len(seq) - 1) |-> IF j < i THEN seq[j] ELSE seq[j + 1]]

\* t = tuple(...); if t: k = t[0]; del config_tree.config[k]
delete_key_regex(config, key_regex) ==
    LET t == DqContains(config, key_regex)
    IN  IF t = {} THEN config ELSE RemoveAt(config, Min(t))

RECURSIVE delete_unwanted_keys_from(_, _)
delete_unwanted_keys_from(config, r) ==
    IF r > Len(keys_regex_to_delete_from_config) THEN config
    ELSE delete_unwanted_keys_from(
             delete_key_regex(config, keys_regex_to_delete_from_config[r]), r + 1)

delete_unwanted_keys(config) == delete_unwanted_keys_from(config, 1)

\* json.dump(config_tree.config, f, sort_keys=True) followed by json.loads:
\* the mapping key -> nested lines, the line order is gone
JsonDump(config) ==
    [k \in {config[i].key : i \in 1..Len(config)} |->
        (CHOOSE e \in {config[i] : i \in 1..Len(config)} : e.key = k).sub]

\* a variant of the diff that reports only the keys added in post;
\* C21_CompareIffEqual does not hold with it
ConfigDiffs_AddedOnly(pre_config, post_config) ==
    {<<"+", k>> : k \in DOMAIN post_config \ DOMAIN pre_config}

\* Diff(pre, post).findDiff(); dd.diffs
ConfigDiffs(pre_config, post_config) ==
    {<<"-", k>> : k \in DOMAIN pre_config \ DOMAIN post_config}
    \cup {<<"+", k>> : k \in DOMAIN post_config \ DOMAIN pre_config}
    \cup {<<"~", k>> : k \in {x \in DOMAIN pre_config \cap DOMAIN post_config :
                                  pre_config[x] # post_config[x]}}

(***************************************************************************)
(* The testbed and what its devices answer.                                *)
(***************************************************************************)
DeviceOrder == <<"d1", "d2">>

Devices == {DeviceOrder[i] : i \in 1..Len(DeviceOrder)}

\* learn_interface: device.os in ("ios", "iosxe", "iosxr", "nxos")
SupportedOs == {"ios", "iosxe", "iosxr", "nxos"}

\* config_types of learn_configs and compare_pre_post_config, in order
config_types == <<"config_running", "config_failed", "config_failed_startup">>

ConfigKinds == {config_types[i] : i \in 1..Len(config_types)}

Kinds == {"interface"} \cup ConfigKinds

Tasks == {"Interface", "Config", "Common"}

Dirs == {"pre", "post"}

\* device.learn("interface").info of a healthy device
IfA ==
    "Gi0" :> [oper_status |-> "up", enabled |-> TRUE, duplex_mode |-> "full",
              counters |-> [in_errors |-> 0, rate |-> [in_rate_pkts |-> 5, out_rate_pkts |-> 5]]]

\* ... and after a change: errors on Gi0, a new loopback without counters
IfB ==
    ("Gi0" :> [oper_status |-> "up", enabled |-> TRUE, duplex_mode |-> "full",
               counters |-> [in_errors |-> MaxCounter, rate |-> [in_rate_pkts |-> 5, out_rate_pkts |-> 5]]])
    @@ ("Lo0" :> [oper_status |-> "down", enabled |-> FALSE])

\* show running-config, tokenized
RunA ==
    <<[key |-> "Mon Jan 3 10:00:00.000 UTC", sub |-> {}], [key |-> "hostname r1", sub |-> {}]>>

RunB ==
    <<[key |-> "Mon Jan 3 10:05:00.000 UTC", sub |-> {}], [key |-> "hostname r1", sub |-> {}],
      [key |-> "interface Gi0", sub |-> {"shutdown"}]>>

\* show configuration failed [startup], tokenized
FailedNone == <<>>

FailedSome == <<[key |-> "!! SEMANTIC ERRORS", sub |-> {"router bgp 1"}]>>

BaseDev ==
    [os |-> "iosxe", reach |-> TRUE, intf |-> IfA, running |-> RunA,
     failed |-> FailedNone, failed_startup |-> FailedNone]

DevVariants ==
    {BaseDev,
     [BaseDev EXCEPT !.os = "linux"],
     [BaseDev EXCEPT !.reach = FALSE],
     [BaseDev EXCEPT !.intf = IfB],
     [BaseDev EXCEPT !.running = RunB],
     [BaseDev EXCEPT !.failed = FailedSome],
     [BaseDev EXCEPT !.failed_startup = FailedSome]}

\* the states of the testbed at the time of a run: at most one device is
\* away from the healthy state
LiveStates == {f \in [Devices -> DevVariants] : \E d \in Devices : f[d] = BaseDev}

\* device.execute(config_types[config_type]) of a connected device
ShowConfig(device, config_type) ==
    CASE config_type = "config_running" -> device.running
      [] config_type = "config_failed" -> device.failed
      [] config_type = "config_failed_startup" -> device.failed_startup

(***************************************************************************)
(* State.                                                                  *)
(*   dirs      the report directory paths: absent | file | dir             *)
(*   files     per directory, the snapshots: (device, kind) -> document    *)
(*   dev       the devices at the time of the current run                  *)
(*   runs      number of runs started                                      *)
(*   job       the arguments of the current run                            *)
(*   pc        per task, the section it is about to run                    *)
(*   cs        per task, the results of its common setup subsections       *)
(*   already   per task, self.report_directory_alredy_exist                *)
(*   connected per task, device.connected of its testbed                   *)
(*   li        per task, the index of the device loop of learn_*           *)
(*   learnt    per task, self.learnt_interfaces / self.learnt_config       *)
(*   prelearnt per task, self.pre_learnt_interfaces / pre_learnt_config    *)
(*   tc        per task, the results of the testcase sections              *)
(*   verdicts  per task, the results of the steps                          *)
(*   events    what the tasks of the current run did (history)             *)
(***************************************************************************)
VARIABLES dirs, files, dev, runs, job, pc, cs, already, connected, li,
          learnt, prelearnt, tc, verdicts, events

vars == <<dirs, files, dev, runs, job, pc, cs, already, connected, li,
          learnt, prelearnt, tc, verdicts, events>>

fsVars == <<dirs, files>>

taskVars == <<cs, already, connected, li, learnt, prelearnt, tc, verdicts>>

\* a variant that takes the pre directory in every run;
\* C25_StageFromArguments does not hold with it
ReportDirectory_AlwaysPre == "pre"

\* report_directory: post if pre and post, else pre
ReportDirectory == IF job.post THEN "post" ELSE "pre"

\* a variant that names the file by the device alone;
\* C23_SingleWriter does not hold with it
FileName_DeviceOnly(device_name, kind) == <<device_name, "state">>

FileName(device_name, kind) == <<device_name, kind>>

\* open(os.path.join(directory, name), "r") and json.loads succeed
Readable(directory, name) == dirs[directory] = "dir" /\ HasKey(files[directory], name)

\* open(os.path.join(directory, name), "w") succeeds
Writable(directory) == dirs[directory] = "dir"

\* a variant of the write that empties the directory first;
\* C2_LearntKeysHaveSnapshot does not hold with it
WriteFile_Truncating(fs, directory, name, document) ==
    [fs EXCEPT ![directory] = (name :> document)]

\* f.write of a snapshot: creates the file or replaces its content
WriteFile(fs, directory, name, document) ==
    [fs EXCEPT ![directory] =
        [n \in DOMAIN fs[directory] \cup {name} |->
            IF n = name THEN document ELSE fs[directory][n]]]

Goto(t, label) == pc' = [pc EXCEPT ![t] = label]

WithResult(results, section, result) == (section :> result) @@ results

SetCs(t, subsection, result) == cs' = [cs EXCEPT ![t] = WithResult(@, subsection, result)]

SetTc(t, section, result) == tc' = [tc EXCEPT ![t] = WithResult(@, section, result)]

Log(E) == events' = events \cup E

CsOk(results) == \A s \in DOMAIN results : results[s] \in {"passed", "skipped"}

\* a subsection Failed or Errored: what is left of the common setup and the
\* testcases are Blocked, the common cleanup is next
AfterFailure(t) == Goto(t, "cleanup")

\* the end of the common setup: the testcases are blocked unless it passed
AfterCommonSetup(t, results, label) ==
    IF CsOk(results) THEN Goto(t, label) ELSE Goto(t, "cleanup")

TypeOK ==
    /\ dirs \in [Dirs -> {"absent", "file", "dir"}]
    /\ dev \in LiveStates
    /\ runs \in 0..MaxRuns
    /\ job \in [kind : {"none", "job", "standalone"}, post : BOOLEAN, offline : BOOLEAN,
                resumed : BOOLEAN]
    /\ already \in [Tasks -> BOOLEAN]
    /\ connected \in [Tasks -> [Devices -> BOOLEAN]]
    /\ \A t \in Tasks : li[t] \in 1..(Len(DeviceOrder) + 1)

FreshTask ==
    /\ cs' = [t \in Tasks |-> EmptyMap]
    /\ already' = [t \in Tasks |-> FALSE]
    /\ connected' = [t \in Tasks |-> [d \in Devices |-> FALSE]]
    /\ li' = [t \in Tasks |-> 1]
    /\ learnt' = [t \in Tasks |-> EmptyMap]
    /\ prelearnt' = [t \in Tasks |-> EmptyMap]
    /\ tc' = [t \in Tasks |-> EmptyMap]
    /\ verdicts' = [t \in Tasks |-> EmptyMap]
    /\ events' = {}

Init ==
    /\ dirs \in {[pre |-> p, post |-> "absent"] : p \in {"absent", "file"}}
    /\ files = [d \in Dirs |-> EmptyMap]
    /\ dev = [d \in Devices |-> BaseDev]
    /\ runs = 0
    /\ job = [kind |-> "none", post |-> FALSE, offline |-> FALSE, resumed |-> FALSE]
    /\ pc = [t \in Tasks |-> "idle"]
    /\ cs = [t \in Tasks |-> EmptyMap]
    /\ already = [t \in Tasks |-> FALSE]
    /\ connected = [t \in Tasks |-> [d \in Devices |-> FALSE]]
    /\ li = [t \in Tasks |-> 1]
    /\ learnt = [t \in Tasks |-> EmptyMap]
    /\ prelearnt = [t \in Tasks |-> EmptyMap]
    /\ tc = [t \in Tasks |-> EmptyMap]
    /\ verdicts = [t \in Tasks |-> EmptyMap]
    /\ events = {}

Idle == \A t \in Tasks : pc[t] \in {"idle", "done", "aborted"}

\* the run that starts is a rerun: the last run was on the same stage, the
\* tasks ts were cut short in it, after the stage directory was there and a
\* snapshot was written
Resumes(post, ts) ==
    /\ job.post = post
    /\ \A t \in ts : pc[t] = "aborted"
    /\ dirs[IF post THEN "post" ELSE "pre"] = "dir"
    /\ \E e \in events : e[2] = "write"

(***************************************************************************)
(* pre_check.py / post_check.py: both tasks are started at once on the     *)
(* directory arguments of the job.                                         *)
(***************************************************************************)
StartJob(post) ==
    /\ Idle
    /\ runs < MaxRuns
    /\ runs' = runs + 1
    /\ job' = [kind |-> "job", post |-> post, offline |-> FALSE,
               resumed |-> job.kind = "job" /\ Resumes(post, {"Interface", "Config"})]
    /\ dev' \in LiveStates
    /\ pc' = [t \in Tasks |-> IF t \in {"Interface", "Config"} THEN "verify" ELSE "idle"]
    /\ FreshTask
    /\ UNCHANGED fsVars

pre_check == StartJob(FALSE)

post_check == StartJob(TRUE)

\* python <script> --testbed ... --pre ... [--post ...]
Standalone(t, post, offline) ==
    /\ Idle
    /\ runs < MaxRuns
    /\ runs' = runs + 1
    /\ job' = [kind |-> "standalone", post |-> post, offline |-> offline,
               resumed |-> job.kind = "standalone" /\ Resumes(post, {t})]
    /\ dev' \in LiveStates
    /\ pc' = [u \in Tasks |-> IF u = t THEN "verify" ELSE "idle"]
    /\ FreshTask
    /\ UNCHANGED fsVars

(***************************************************************************)
(* CommonSetup of interface_verifications.py and config_verifications.py.  *)
(***************************************************************************)
\* os.path.exists(pre)
PreDirectoryOk(state) == state # "absent"

verify_pre_directory(t) ==
    /\ pc[t] = "verify"
    /\ IF ~job.post
       THEN SetCs(t, "verify_pre_directory", "skipped") /\ Goto(t, "create")
       ELSE IF PreDirectoryOk(dirs["pre"])
            THEN SetCs(t, "verify_pre_directory", "passed") /\ Goto(t, "create")
            ELSE SetCs(t, "verify_pre_directory", "failed") /\ AfterFailure(t)
    /\ UNCHANGED <<fsVars, dev, runs, job, already, connected, li, learnt, prelearnt,
                   tc, verdicts, events>>

\* create_report_directory up to os.mkdir
create_report_directory(t) ==
    /\ pc[t] = "create"
    /\ IF dirs[ReportDirectory] # "absent"
       THEN /\ already' = [already EXCEPT ![t] = TRUE]
            /\ SetCs(t, "create_report_directory", "skipped")
            /\ Goto(t, "connect")
       ELSE /\ already' = [already EXCEPT ![t] = FALSE]
            /\ Goto(t, "mkdir")
            /\ UNCHANGED cs
    /\ UNCHANGED <<fsVars, dev, runs, job, connected, li, learnt, prelearnt,
                   tc, verdicts, events>>

\* os.mkdir(report_directory) and what follows it
mkdir_report_directory(t) ==
    /\ pc[t] = "mkdir"
    /\ IF dirs[ReportDirectory] = "absent"
       THEN /\ dirs' = [dirs EXCEPT ![ReportDirectory] = "dir"]
            /\ SetCs(t, "create_report_directory", "passed")
            /\ Goto(t, "connect")
            /\ Log({<<t, "mkdir", ReportDirectory>>})
       ELSE /\ SetCs(t, "create_report_directory", "failed")
            /\ AfterFailure(t)
            /\ UNCHANGED <<dirs, events>>
    /\ UNCHANGED <<files, dev, runs, job, already, connected, li, learnt, prelearnt,
                   tc, verdicts>>

\* connect is skipped when the report directory was there already (in
\* config_verifications.py only when run as __main__)
SkipsCapture(t) ==
    IF t = "Config" THEN already[t] /\ job.kind = "standalone" ELSE already[t]

\* testbed.connect(): every reachable device gets connected; the connection
\* errors are caught
connect(t) ==
    /\ pc[t] = "connect"
    /\ IF SkipsCapture(t)
       THEN /\ SetCs(t, "connect", "skipped")
            /\ UNCHANGED <<connected, events>>
       ELSE /\ connected' = [connected EXCEPT ![t] = [d \in Devices |-> dev[d].reach]]
            /\ SetCs(t, "connect", "passed")
            /\ Log({<<t, "connect", d>> : d \in Devices})
    /\ Goto(t, "learn")
    /\ UNCHANGED <<fsVars, dev, runs, job, already, li, learnt, prelearnt, tc, verdicts>>

(***************************************************************************)
(* interface_verifications.py: learn_interface, one device of the loop.    *)
(***************************************************************************)
LearnInterfaceSkipped(t) == already[t]

learn_interface ==
    LET t == "Interface"
        d == DeviceOrder[li[t]]
        name == FileName(d, "interface")
    IN
    /\ pc[t] = "learn"
    /\ IF LearnInterfaceSkipped(t)
       THEN /\ SetCs(t, "learn_interface", "skipped")
            /\ AfterCommonSetup(t, WithResult(cs[t], "learn_interface", "skipped"), "ie_setup")
            /\ UNCHANGED <<files, li, events>>
       ELSE IF li[t] > Len(DeviceOrder)
       THEN /\ SetCs(t, "learn_interface", "passed")
            /\ AfterCommonSetup(t, WithResult(cs[t], "learn_interface", "passed"), "ie_setup")
            /\ UNCHANGED <<files, li, events>>
       ELSE IF dev[d].os \notin SupportedOs
       THEN /\ li' = [li EXCEPT ![t] = @ + 1]
            /\ UNCHANGED <<files, cs, pc, events>>
       ELSE IF ~connected[t][d] \/ ~Writable(ReportDirectory)
       THEN \* device.learn or open raises: the subsection is Errored
            /\ SetCs(t, "learn_interface", "errored")
            /\ AfterFailure(t)
            /\ Log({<<t, "learn", d, "interface">>})
            /\ UNCHANGED <<files, li>>
       ELSE /\ files' = WriteFile(files, ReportDirectory, name, dev[d].intf)
            /\ li' = [li EXCEPT ![t] = @ + 1]
            /\ Log({<<t, "learn", d, "interface">>, <<t, "learnt", d, "interface">>,
                    <<t, "write", ReportDirectory, d, "interface">>})
            /\ UNCHANGED <<cs, pc>>
    /\ UNCHANGED <<dirs, dev, runs, job, already, connected, learnt, prelearnt, tc, verdicts>>

(***************************************************************************)
(* config_verifications.py: learn_configs, one device of the loop with its *)
(* three config types.                                                     *)
(***************************************************************************)
\* the step of one config type: learnt and written, or skipped by the except
ConfigLearnt(t, d) == connected[t][d] /\ Writable(ReportDirectory)

RECURSIVE WriteConfigs(_, _, _, _)
WriteConfigs(fs, d, directory, i) ==
    IF i > Len(config_types) THEN fs
    ELSE WriteConfigs(
             WriteFile(fs, directory, FileName(d, config_types[i]),
                       JsonDump(delete_unwanted_keys(ShowConfig(dev[d], config_types[i])))),
             d, directory, i + 1)

learn_configs ==
    LET t == "Config"
        d == DeviceOrder[li[t]]
    IN
    /\ pc[t] = "learn"
    /\ IF SkipsCapture(t)
       THEN /\ SetCs(t, "learn_configs", "skipped")
            /\ AfterCommonSetup(t, WithResult(cs[t], "learn_configs", "skipped"), "cfg_setup")
            /\ UNCHANGED <<files, li, events>>
       ELSE IF li[t] > Len(DeviceOrder)
       THEN /\ SetCs(t, "learn_configs", "passed")
            /\ AfterCommonSetup(t, WithResult(cs[t], "learn_configs", "passed"), "cfg_setup")
            /\ UNCHANGED <<files, li, events>>
       ELSE /\ li' = [li EXCEPT ![t] = @ + 1]
            /\ UNCHANGED <<cs, pc>>
            /\ IF ConfigLearnt(t, d)
               THEN /\ files' = WriteConfigs(files, d, ReportDirectory, 1)
                    /\ Log({<<t, "learn", d, k>> : k \in ConfigKinds}
                           \cup {<<t, "learnt", d, k>> : k \in ConfigKinds}
                           \cup {<<t, "write", ReportDirectory, d, k>> : k \in ConfigKinds})
               ELSE /\ Log({<<t, "learn", d, k>> : k \in ConfigKinds})
                    /\ UNCHANGED files
    /\ UNCHANGED <<dirs, dev, runs, job, already, connected, learnt, prelearnt, tc, verdicts>>

(***************************************************************************)
(* interface_errors.setup and interface_or_traffic_down.setup: the loop    *)
(* ends at the first device whose file cannot be read (self.failed).       *)
(***************************************************************************)
RECURSIVE ReadInterfaces(_, _)
ReadInterfaces(i, acc) ==
    IF i > Len(DeviceOrder) THEN acc
    ELSE
      LET d == DeviceOrder[i]
          name == FileName(d, "interface")
      IN  IF ~Readable(ReportDirectory, name) THEN [acc EXCEPT !.failed = TRUE]
          ELSE LET a == [acc EXCEPT !.learnt = (d :> files[ReportDirectory][name]) @@ @]
               IN  IF ~job.post THEN ReadInterfaces(i + 1, a)
                   ELSE IF ~Readable("pre", name) THEN [a EXCEPT !.failed = TRUE]
                   ELSE ReadInterfaces(i + 1, [a EXCEPT !.pre = (d :> files["pre"][name]) @@ @])

interface_setup(here, section, test, blocked) ==
    LET t == "Interface"
        r == ReadInterfaces(1, [failed |-> FALSE, learnt |-> EmptyMap, pre |-> EmptyMap])
    IN
    /\ pc[t] = here
    /\ learnt' = [learnt EXCEPT ![t] = r.learnt]
    /\ prelearnt' = [prelearnt EXCEPT ![t] = r.pre]
    /\ IF r.failed
       THEN SetTc(t, section, "failed") /\ Goto(t, blocked)
       ELSE SetTc(t, section, "passed") /\ Goto(t, test)
    /\ UNCHANGED <<fsVars, dev, runs, job, cs, already, connected, li, verdicts, events>>

interface_errors_setup == interface_setup("ie_setup", "interface_errors.setup", "ie_test", "td_setup")

interface_or_traffic_down_setup ==
    interface_setup("td_setup", "interface_or_traffic_down.setup", "td_test", "cleanup")

\* the steps of one test: every interface of every device of learnt_interfaces
InterfaceSteps(test, loaded) ==
    {<<test, d, n>> : d \in DOMAIN loaded, n \in UNION {DOMAIN loaded[x] : x \in DOMAIN loaded}}

StepsOf(test, loaded) == {k \in InterfaceSteps(test, loaded) : k[3] \in DOMAIN loaded[k[2]]}

interface_test(here, test, there) ==
    LET t == "Interface"
        steps == StepsOf(test, learnt[t])
        body(k) ==
            LET interface == learnt[t][k[2]][k[3]]
            IN  CASE test = "interface_errors" ->
                       interface_errors_step(job.post, k[2], k[3], interface, prelearnt[t])
                  [] test = "interface_or_traffic_down" ->
                       interface_or_traffic_down_step(job.post, k[2], k[3], interface, prelearnt[t])
                  [] test = "interface_in_half_duplex" ->
                       interface_in_half_duplex_step(job.post, k[2], k[3], interface, prelearnt[t])
    IN
    /\ pc[t] = here
    /\ verdicts' = [verdicts EXCEPT ![t] = [k \in steps |-> body(k)] @@ @]
    /\ SetTc(t, test, "ran")
    /\ Goto(t, there)
    /\ UNCHANGED <<fsVars, dev, runs, job, cs, already, connected, li, learnt, prelearnt, events>>

interface_errors == interface_test("ie_test", "interface_errors", "td_setup")

interface_or_traffic_down == interface_test("td_test", "interface_or_traffic_down", "hd_test")

interface_in_half_duplex == interface_test("hd_test", "interface_in_half_duplex", "cleanup")

(***************************************************************************)
(* CommonCleanup.disconnect of both scripts: testbed.disconnect().         *)
(***************************************************************************)
disconnect(t) ==
    /\ pc[t] = "cleanup"
    /\ t \in {"Interface", "Config"}
    /\ connected' = [connected EXCEPT ![t] = [d \in Devices |-> FALSE]]
    /\ Goto(t, "done")
    /\ UNCHANGED <<fsVars, dev, runs, job, cs, already, li, learnt, prelearnt, tc, verdicts, events>>

(***************************************************************************)
(* compare_pre_post_config.setup: one step per device and config type,     *)
(* a file that cannot be read fails its step and the loop goes on.         *)
(***************************************************************************)
ConfigRead(d, kind) == Readable(ReportDirectory, FileName(d, kind))

\* a variant that reads the pre snapshot in every run;
\* C22_PreRunHasNoBaseline does not hold with it
PreConfigRead_Always(d, kind) == ConfigRead(d, kind) /\ Readable("pre", FileName(d, kind))

PreConfigRead(d, kind) == ConfigRead(d, kind) /\ job.post /\ Readable("pre", FileName(d, kind))

ReadStepOk(d, kind) == ConfigRead(d, kind) /\ (job.post => PreConfigRead(d, kind))

config_setup ==
    LET t == "Config"
        loaded == [d \in Devices |->
                      [k \in {x \in ConfigKinds : ConfigRead(d, x)} |->
                          files[ReportDirectory][FileName(d, k)]]]
        preloaded == [d \in Devices |->
                         [k \in {x \in ConfigKinds : PreConfigRead(d, x)} |->
                             files["pre"][FileName(d, k)]]]
        steps == {<<"setup", d, k>> : d \in Devices, k \in ConfigKinds}
        result(k) == IF ReadStepOk(k[2], k[3])
                     THEN Verdict("passed", "read", "default", EmptyMap)
                     ELSE Verdict("failed", "read", "unable to read", EmptyMap)
        ok == \A d \in Devices, k \in ConfigKinds : ReadStepOk(d, k)
    IN
    /\ pc[t] = "cfg_setup"
    /\ learnt' = [learnt EXCEPT ![t] = loaded]
    /\ prelearnt' = [prelearnt EXCEPT ![t] = preloaded]
    /\ verdicts' = [verdicts EXCEPT ![t] = [k \in steps |-> result(k)] @@ @]
    /\ IF ok
       THEN SetTc(t, "compare_pre_post_config.setup", "passed") /\ Goto(t, "cfg_compare")
       ELSE SetTc(t, "compare_pre_post_config.setup", "failed") /\ Goto(t, "cleanup")
    /\ UNCHANGED <<fsVars, dev, runs, job, cs, already, connected, li, events>>

(***************************************************************************)
(* compare_pre_post_config.compare_pre_post_configs_running.               *)
(***************************************************************************)
compare_step(pre_config, post_config) ==
    IF ~HasKey(pre_config, "config_running") \/ ~HasKey(post_config, "config_running")
    THEN Verdict("errored", "diff", "KeyError", EmptyMap)
    ELSE IF ConfigDiffs(pre_config["config_running"], post_config["config_running"]) # {}
         THEN Verdict("failed", "diff", "differences", EmptyMap)
         ELSE Verdict("passed", "diff", "the same", EmptyMap)

compare_pre_post_configs_running ==
    LET t == "Config"
        steps == {<<"compare_pre_post_configs_running", d, "config_running">> : d \in Devices}
    IN
    /\ pc[t] = "cfg_compare"
    /\ IF job.post
       THEN /\ verdicts' = [verdicts EXCEPT ![t] =
                   [k \in steps |-> compare_step(prelearnt[t][k[2]], learnt[t][k[2]])] @@ @]
            /\ SetTc(t, "compare_pre_post_configs_running", "ran")
       ELSE /\ SetTc(t, "compare_pre_post_configs_running", "skipped")
            /\ UNCHANGED verdicts
    /\ Goto(t, "cfg_failed")
    /\ UNCHANGED <<fsVars, dev, runs, job, cs, already, connected, li, learnt, prelearnt, events>>

(***************************************************************************)
(* compare_pre_post_config.check_failed_configs.                           *)
(***************************************************************************)
failed_configs_keys == <<"config_failed", "config_failed_startup">>

\* a variant that fails every snapshot that was read, empty or not;
\* C29_FailedIffNonEmpty does not hold with it
failed_config_step_AnyRead(config, failed_config_key) ==
    IF HasKey(config, failed_config_key)
    THEN Verdict("failed", "failed_config", "failed configurations were found", EmptyMap)
    ELSE Verdict("passed", "failed_config", "no failed configurations found", EmptyMap)

failed_config_step(config, failed_config_key) ==
    IF HasKey(config, failed_config_key)
    THEN IF DOMAIN config[failed_config_key] # {}
         THEN Verdict("failed", "failed_config", "failed configurations were found", EmptyMap)
         ELSE Verdict("passed", "failed_config", "default", EmptyMap)
    ELSE Verdict("passed", "failed_config", "no failed configurations found", EmptyMap)

check_failed_configs ==
    LET t == "Config"
        steps == {<<"check_failed_configs", d, failed_configs_keys[i]>> :
                      d \in Devices, i \in 1..Len(failed_configs_keys)}
    IN
    /\ pc[t] = "cfg_failed"
    /\ verdicts' = [verdicts EXCEPT ![t] =
           [k \in steps |-> failed_config_step(learnt[t][k[2]], k[3])] @@ @]
    /\ SetTc(t, "check_failed_configs", "ran")
    /\ Goto(t, "cleanup")
    /\ UNCHANGED <<fsVars, dev, runs, job, cs, already, connected, li, learnt, prelearnt, events>>

(***************************************************************************)
(* common_setup_cleanup.py.                                                *)
(***************************************************************************)
\* os.path.exists(pre) and os.path.isdir(pre)
CommonPreDirectoryOk(state) == state = "dir"

\* a failure goes to the common cleanup (goto)
common_verify_pre_directory ==
    LET t == "Common" IN
    /\ pc[t] = "verify"
    /\ IF ~job.post
       THEN SetCs(t, "verify_pre_directory", "skipped") /\ Goto(t, "attributes")
       ELSE IF CommonPreDirectoryOk(dirs["pre"])
            THEN SetCs(t, "verify_pre_directory", "passed") /\ Goto(t, "attributes")
            ELSE SetCs(t, "verify_pre_directory", "failed") /\ Goto(t, "cleanup")
    /\ UNCHANGED <<fsVars, dev, runs, job, already, connected, li, learnt, prelearnt,
                   tc, verdicts, events>>

\* testscript.parameters["report_directory"] is ReportDirectory
set_common_attributes ==
    LET t == "Common" IN
    /\ pc[t] = "attributes"
    /\ SetCs(t, "set_common_attributes", "passed")
    /\ Goto(t, "create")
    /\ UNCHANGED <<fsVars, dev, runs, job, already, connected, li, learnt, prelearnt,
                   tc, verdicts, events>>

\* the connect() calls made for one device and whether it ends connected:
\* first is the outcome of the first call, retry that of the call in the loop
ConnectCalls(was_connected, first, retry) ==
    IF was_connected THEN [calls |-> 0, connected |-> TRUE, result |-> "skipped"]
    ELSE IF first THEN [calls |-> 1, connected |-> TRUE, result |-> "passed"]
    ELSE IF retry THEN [calls |-> 2, connected |-> TRUE, result |-> "passed"]
    ELSE [calls |-> 2, connected |-> FALSE, result |-> "skipped"]

connect_to_device ==
    LET t == "Common"
        d == DeviceOrder[li[t]]
    IN
    /\ pc[t] = "connect"
    /\ IF job.offline
       THEN /\ SetCs(t, "connect_to_device", "skipped")
            /\ Goto(t, "cleanup")
            /\ UNCHANGED <<connected, li, verdicts, events>>
       ELSE IF li[t] > Len(DeviceOrder)
       THEN /\ SetCs(t, "connect_to_device", "passed")
            /\ Goto(t, "cleanup")
            /\ UNCHANGED <<connected, li, verdicts, events>>
       ELSE \E first, retry \in {b \in BOOLEAN : b => dev[d].reach} :
              LET c == ConnectCalls(connected[t][d], first, retry) IN
              /\ connected' = [connected EXCEPT ![t][d] = c.connected]
              /\ verdicts' = [verdicts EXCEPT ![t] =
                     (<<"connect_to_device", d, "step">> :>
                         Verdict(c.result, "connect", "calls", "connect" :> c.calls)) @@ @]
              /\ Log({<<t, "connect", d>>})
              /\ li' = [li EXCEPT ![t] = @ + 1]
              /\ UNCHANGED <<cs, pc>>
    /\ UNCHANGED <<fsVars, dev, runs, job, already, learnt, prelearnt, tc>>

\* disconnect_from_device: the try block only logs, no device is disconnected
disconnect_step(is_connected) ==
    IF is_connected
    THEN Verdict("passed", "disconnect", "successfully disconnected", EmptyMap)
    ELSE Verdict("skipped", "disconnect", "already disconnected", EmptyMap)

disconnect_from_device ==
    LET t == "Common"
        steps == {<<"disconnect_from_device", d, "step">> : d \in Devices}
    IN
    /\ pc[t] = "cleanup"
    /\ verdicts' = [verdicts EXCEPT ![t] =
           [k \in steps |-> disconnect_step(connected[t][k[2]])] @@ @]
    /\ Goto(t, "done")
    /\ UNCHANGED <<fsVars, dev, runs, job, cs, already, connected, li, learnt, prelearnt,
                   tc, events>>

(***************************************************************************)
(* The scripts.                                                            *)
(***************************************************************************)
Interface_verify_pre_directory == verify_pre_directory("Interface")

Interface_create_report_directory ==
    create_report_directory("Interface") \/ mkdir_report_directory("Interface")

Interface_connect == connect("Interface")

Interface_disconnect == disconnect("Interface")

Config_verify_pre_directory == verify_pre_directory("Config")

Config_create_report_directory ==
    create_report_directory("Config") \/ mkdir_report_directory("Config")

Config_connect == connect("Config")

Config_disconnect == disconnect("Config")

Common_create_report_directory ==
    create_report_directory("Common") \/ mkdir_report_directory("Common")

interface_verifications == \E post \in BOOLEAN : Standalone("Interface", post, FALSE)

config_verifications == \E post \in BOOLEAN : Standalone("Config", post, FALSE)

common_setup_cleanup == \E post, offline \in BOOLEAN : Standalone("Common", post, offline)

Next ==
    \/ pre_check
    \/ post_check
    \/ interface_verifications
    \/ config_verifications
    \/ common_setup_cleanup
    \/ Interface_verify_pre_directory
    \/ Interface_create_report_directory
    \/ Interface_connect
    \/ learn_interface
    \/ interface_errors_setup
    \/ interface_errors
    \/ interface_or_traffic_down_setup
    \/ interface_or_traffic_down
    \/ interface_in_half_duplex
    \/ Interface_disconnect
    \/ Config_verify_pre_directory
    \/ Config_create_report_directory
    \/ Config_connect
    \/ learn_configs
    \/ config_setup
    \/ compare_pre_post_configs_running
    \/ check_failed_configs
    \/ Config_disconnect
    \/ common_verify_pre_directory
    \/ set_common_attributes
    \/ Common_create_report_directory
    \/ connect_to_device
    \/ disconnect_from_device

Spec == Init /\ [][Next]_vars

(***************************************************************************)
(* The runs that are cut short: the processes of the run are ended from    *)
(* outside at any point (the tasks of pre_check.py and post_check.py, or   *)
(* the script run on its own); nothing of what they did is undone.         *)
(***************************************************************************)
Active(t) == pc[t] \notin {"idle", "done", "aborted"}

Abort ==
    /\ \A t \in Tasks : pc[t] # "idle" => Active(t)
    /\ \E t \in Tasks : Active(t)
    /\ pc' = [t \in Tasks |-> IF Active(t) THEN "aborted" ELSE pc[t]]
    /\ UNCHANGED <<fsVars, dev, runs, job, taskVars, events>>

NextRerun == Next \/ Abort

SpecRerun == Init /\ [][NextRerun]_vars

(***************************************************************************)
(* The interface testcases on their own: interface_verifications.py is run *)
(* on report directories that hold the snapshots of earlier runs (the      *)
(* common setup skips connect and learn_interface), for every shape of     *)
(* the interface record of d1.                                             *)
(***************************************************************************)
Opt(key, values) == {EmptyMap} \cup {key :> v : v \in values}

CounterInputKeys == {"in_errors", "out_discard"}

CounterMaps == UNION {[S -> 0..MaxCounter] : S \in SUBSET CounterInputKeys}

RateMaps == UNION {[S -> {0, 5}] : S \in SUBSET {"in_rate_pkts", "out_rate_pkts"}}

\* records that differ in their error counters
CounterRecords == {EmptyMap} \cup {"counters" :> c : c \in CounterMaps}

\* records that differ in oper_status, enabled and the rate counters
StatusRecords ==
    {a @@ b @@ c :
        a \in Opt("oper_status", {"up", "down", "lower-layer-down"}),
        b \in Opt("enabled", BOOLEAN),
        c \in {EmptyMap, "counters" :> EmptyMap} \cup {"counters" :> ("rate" :> r) : r \in RateMaps}}

\* records that differ in duplex_mode and enabled
DuplexRecords ==
    {a @@ b : a \in Opt("duplex_mode", {"full", "half", "auto"}), b \in Opt("enabled", BOOLEAN)}

\* the records of an interface that is up and enabled, with two error
\* counters and traffic
FullRecords ==
    {[oper_status |-> "up", enabled |-> TRUE, duplex_mode |-> "full",
      counters |-> [in_errors |-> a, out_discard |-> b,
                    rate |-> [in_rate_pkts |-> 5, out_rate_pkts |-> 5]]] :
        a, b \in 0..MaxCounter}

\* the snapshot of a device with one interface, or with none
Snapshots(name, records) == {EmptyMap} \cup {name :> r : r \in records}

InitEvalWith(name, records) ==
    \E post \in BOOLEAN, doc \in {name :> r : r \in records}, predoc \in Snapshots(name, records) :
        /\ job = [kind |-> "standalone", post |-> post, offline |-> FALSE, resumed |-> FALSE]
        /\ dirs = [pre |-> "dir", post |-> IF post THEN "dir" ELSE "absent"]
        /\ files = IF post
                   THEN [pre |-> (FileName("d1", "interface") :> predoc)
                                 @@ (FileName("d2", "interface") :> IfA),
                         post |-> (FileName("d1", "interface") :> doc)
                                  @@ (FileName("d2", "interface") :> IfA)]
                   ELSE [pre |-> (FileName("d1", "interface") :> doc)
                                 @@ (FileName("d2", "interface") :> IfA),
                         post |-> EmptyMap]
        /\ (~post => predoc = EmptyMap)

InitEval ==
    /\ \/ InitEvalWith("Gi0", CounterRecords)
       \/ InitEvalWith("Gi0", StatusRecords)
       \/ InitEvalWith("Gi0", DuplexRecords)
       \/ InitEvalWith("Gi0", FullRecords)
       \/ InitEvalWith("Null0", FullRecords)
    /\ dev = [d \in Devices |-> BaseDev]
    /\ runs = 1
    /\ pc = [t \in Tasks |-> IF t = "Interface" THEN "ie_setup" ELSE "idle"]
    /\ cs = [t \in Tasks |->
                IF t = "Interface"
                THEN [verify_pre_directory |-> IF job.post THEN "passed" ELSE "skipped",
                      create_report_directory |-> "skipped",
                      connect |-> "skipped",
                      learn_interface |-> "skipped"]
                ELSE EmptyMap]
    /\ already = [t \in Tasks |-> t = "Interface"]
    /\ connected = [t \in Tasks |-> [d \in Devices |-> FALSE]]
    /\ li = [t \in Tasks |-> 1]
    /\ learnt = [t \in Tasks |-> EmptyMap]
    /\ prelearnt = [t \in Tasks |-> EmptyMap]
    /\ tc = [t \in Tasks |-> EmptyMap]
    /\ verdicts = [t \in Tasks |-> EmptyMap]
    /\ events = {}

NextEval ==
    \/ interface_errors_setup
    \/ interface_errors
    \/ interface_or_traffic_down_setup
    \/ interface_or_traffic_down
    \/ interface_in_half_duplex
    \/ Interface_disconnect

SpecEval == InitEval /\ [][NextEval]_vars

(***************************************************************************)
(* The key deletion of learn_configs on its own: the Config task of a pre  *)
(* run is connected and about to learn; the running configuration of d1    *)
(* is any document of at most MaxLen top-level lines.                      *)
(***************************************************************************)
\* lines of a tokenized show running-config: two that match the timestamp
\* pattern, one that matches the last-change pattern, and plain ones, one
\* of them with a nested line that matches the timestamp pattern
ConfigLines ==
    {[key |-> k, sub |-> {}] :
        k \in {"Mon Jan 3 10:00:00.000 UTC", "Mon Jan 3 10:05:00.000 UTC",
               "!!10:00:00 UTC Mon Jan 3 2022", "hostname r1"}}
    \cup {[key |-> "interface Gi0", sub |-> {"shutdown"}],
          [key |-> "banner motd", sub |-> {"Mon Jan 3 10:00:00.000 UTC", "maintenance"}]}

\* a dictionary has distinct keys
DistinctKeys(config) ==
    \A i, j \in 1..Len(config) : config[i].key = config[j].key => i = j

ConfigDocuments ==
    {config \in UNION {[1..n -> ConfigLines] : n \in 0..MaxLen} : DistinctKeys(config)}

InitNorm ==
    /\ \E config \in ConfigDocuments :
           dev = [d \in Devices |->
                     IF d = "d1" THEN [BaseDev EXCEPT !.running = config] ELSE BaseDev]
    /\ dirs = [pre |-> "dir", post |-> "absent"]
    /\ files = [d \in Dirs |-> EmptyMap]
    /\ runs = 1
    /\ job = [kind |-> "job", post |-> FALSE, offline |-> FALSE, resumed |-> FALSE]
    /\ pc = [t \in Tasks |-> IF t = "Config" THEN "learn" ELSE "idle"]
    /\ cs = [t \in Tasks |->
                IF t = "Config"
                THEN [verify_pre_directory |-> "skipped",
                      create_report_directory |-> "passed",
                      connect |-> "passed"]
                ELSE EmptyMap]
    /\ already = [t \in Tasks |-> FALSE]
    /\ connected = [t \in Tasks |-> [d \in Devices |-> t = "Config"]]
    /\ li = [t \in Tasks |-> 1]
    /\ learnt = [t \in Tasks |-> EmptyMap]
    /\ prelearnt = [t \in Tasks |-> EmptyMap]
    /\ tc = [t \in Tasks |-> EmptyMap]
    /\ verdicts = [t \in Tasks |-> EmptyMap]
    /\ events = {}

NextNorm ==
    \/ learn_configs
    \/ config_setup
    \/ compare_pre_post_configs_running
    \/ check_failed_configs
    \/ Config_disconnect

SpecNorm == InitNorm /\ [][NextNorm]_vars

(***************************************************************************)
(* Properties.                                                             *)
(***************************************************************************)
InterfaceTests == {"interface_errors", "interface_or_traffic_down", "interface_in_half_duplex"}

TrackedCounters == {counter_error_keys[i] : i \in 1..Len(counter_error_keys)}

RateCounters == {rate_counters_keys[i] : i \in 1..Len(rate_counters_keys)}

\* the common setup of task t ran its capture subsection to the end
CaptureEnded(t) ==
    \/ t = "Interface" /\ HasKey(cs[t], "learn_interface")
    \/ t = "Config" /\ HasKey(cs[t], "learn_configs")

KindsOf(t) == IF t = "Interface" THEN {"interface"} ELSE ConfigKinds

\* the steps of an interface test that have a result, and what they judged
Evaluated(test) ==
    {k \in DOMAIN verdicts["Interface"] :
        /\ k[1] = test
        /\ HasKey(learnt["Interface"], k[2])
        /\ HasKey(learnt["Interface"][k[2]], k[3])}

Judged(k) == learnt["Interface"][k[2]][k[3]]

VerdictOf(k) == verdicts["Interface"][k]

NoBaseline(v) == v.result = "failed" /\ v.reason = "no pre learnt information"

\* C1: a snapshot file that is present in a report directory keeps its
\* content in every step: no later capture overwrites it.
C1_WriteOnce ==
    [][\A directory \in Dirs : \A name \in DOMAIN files[directory] :
          /\ HasKey(files'[directory], name)
          /\ files'[directory][name] = files[directory][name]]_vars

C3_NoCaptureWithoutPre ==
    (job.post /\ dirs["pre"] # "dir") => events = {}

\* C4: when a device is unreachable, a task that connected and ended its
\* capture subsection has written the snapshots of every reachable device.
C4_CaptureIsolated ==
    \A t \in {"Interface", "Config"} :
        ( /\ CaptureEnded(t)
          /\ HasKey(cs[t], "connect") /\ cs[t]["connect"] = "passed"
          /\ Writable(ReportDirectory)
          /\ \E d \in Devices : ~dev[d].reach )
        => \A d \in Devices, k \in KindsOf(t) :
               (dev[d].reach /\ dev[d].os \in SupportedOs)
                   => <<t, "write", ReportDirectory, d, k>> \in events

\* C5: in a post run in which the snapshots of some device cannot be read,
\* every interface of every device with readable pre and post snapshots has
\* a result in each interface test once the testcases are over.
C5_ReadIsolated ==
    ( /\ job.post
      /\ pc["Interface"] \in {"cleanup", "done"}
      /\ CaptureEnded("Interface") /\ CsOk(cs["Interface"])
      /\ \E d \in Devices : ~Readable("pre", FileName(d, "interface")) )
    => \A d \in Devices :
           (Readable("post", FileName(d, "interface")) /\ Readable("pre", FileName(d, "interface")))
               => \A n \in DOMAIN files["post"][FileName(d, "interface")], test \in InterfaceTests :
                      HasKey(verdicts["Interface"], <<test, d, n>>)

\* C6: a run of the interface script whose directory precondition holds ends
\* with a result for every interface in the stage snapshots, in every test.
C6_DoneWithEveryVerdict ==
    (pc["Interface"] = "done" /\ (job.post => dirs["pre"] = "dir"))
    => \A d \in Devices :
           Readable(ReportDirectory, FileName(d, "interface"))
               => \A n \in DOMAIN files[ReportDirectory][FileName(d, "interface")],
                     test \in InterfaceTests :
                      HasKey(verdicts["Interface"], <<test, d, n>>)

\* C7: in a post run, a field of the post snapshot without its counterpart
\* in the pre snapshot always gives a failed, no-baseline result.
C7_MissingBaselineFails ==
    job.post =>
        /\ \A k \in Evaluated("interface_errors") :
               ( /\ HasKey(Judged(k), "counters")
                 /\ \E c \in TrackedCounters :
                        /\ HasKey(Judged(k)["counters"], c)
                        /\ ~PreHasCounter(prelearnt["Interface"], k[2], k[3], c) )
               => NoBaseline(VerdictOf(k))
        /\ \A k \in Evaluated("interface_or_traffic_down") :
               ( \/ /\ HasKey(Judged(k), "oper_status")
                    /\ ~PreHasField(prelearnt["Interface"], k[2], k[3], "oper_status")
                 \/ /\ HasKey(Judged(k), "counters")
                    /\ HasKey(Judged(k)["counters"], "rate")
                    /\ \E r \in RateCounters :
                           /\ HasKey(Judged(k)["counters"]["rate"], r)
                           /\ ~PreHasRate(prelearnt["Interface"], k[2], k[3], r) )
               => NoBaseline(VerdictOf(k))
        /\ \A k \in Evaluated("interface_in_half_duplex") :
               ( /\ HasKey(Judged(k), "duplex_mode")
                 /\ ~PreHasField(prelearnt["Interface"], k[2], k[3], "duplex_mode") )
               => NoBaseline(VerdictOf(k))

\* the tracked counters of an interface that are present and positive
PositiveCounters(interface) ==
    {c \in TrackedCounters : HasKey(interface["counters"], c) /\ interface["counters"][c] > 0}

\* C8: in a pre-only run an interface with counters fails interface_errors
\* iff a tracked counter is positive, the message reports exactly the
\* positive counters with their values, and it passes otherwise.
C8_PreOnlyCounters ==
    ~job.post =>
        \A k \in Evaluated("interface_errors") :
            HasKey(Judged(k), "counters") =>
                LET positive == PositiveCounters(Judged(k))
                    v == VerdictOf(k)
                IN  /\ v.result = "failed" <=> positive # {}
                    /\ positive # {} => v.detail = [c \in positive |-> Judged(k)["counters"][c]]
                    /\ positive = {} => v.result = "passed"

\* a pre-only run that failed an interface with two positive counters
C8_Witness ==
    /\ ~job.post
    /\ \E k \in Evaluated("interface_errors") :
           /\ VerdictOf(k).result = "failed"
           /\ Cardinality(DOMAIN VerdictOf(k).detail) = 2

\* C9: in a post run a tracked counter present in both snapshots with
\* different values fails the interface, whatever the two values are.
C9_ChangedCounterFails ==
    job.post =>
        \A k \in Evaluated("interface_errors") :
            ( /\ HasKey(Judged(k), "counters")
              /\ \E c \in TrackedCounters :
                     /\ HasKey(Judged(k)["counters"], c)
                     /\ PreHasCounter(prelearnt["Interface"], k[2], k[3], c)
                     /\ Judged(k)["counters"][c] #
                            prelearnt["Interface"][k[2]][k[3]]["counters"][c] )
            => VerdictOf(k).result = "failed"

\* C10: in a pre-only run an interface that is down fails the status check
\* when enabled and is skipped as admin-down when disabled; with any other
\* oper_status the status check neither fails nor skips it.
C10_PreOnlyStatus ==
    ~job.post =>
        \A k \in Evaluated("interface_or_traffic_down") :
            HasKey(Judged(k), "oper_status") =>
                LET interface == Judged(k)
                    v == VerdictOf(k)
                IN  /\ (interface["oper_status"] = "down" /\ HasKey(interface, "enabled"))
                           => IF interface["enabled"]
                              THEN v.result = "failed" /\ v.rule = "status"
                              ELSE v.result = "skipped" /\ v.rule = "status"
                                   /\ v.reason = "admin-down"
                    /\ interface["oper_status"] # "down" => v.rule # "status"

\* a pre-only run that skipped a disabled interface that is down
C10_Witness ==
    /\ ~job.post
    /\ \E k \in Evaluated("interface_or_traffic_down") :
           /\ HasKey(Judged(k), "oper_status")
           /\ Judged(k)["oper_status"] = "down"
           /\ VerdictOf(k).result = "skipped"
           /\ VerdictOf(k).reason = "admin-down"

\* the value a field of the judged interface had in the pre snapshot
PreField(k, field) == prelearnt["Interface"][k[2]][k[3]][field]

\* C11: in a post run an interface whose oper_status (duplex_mode) is in
\* both snapshots fails the status (duplex) check iff the post value
\* differs from the pre value, in either direction of the change.
C11_ChangedFieldFails ==
    job.post =>
        /\ \A k \in Evaluated("interface_or_traffic_down") :
               ( /\ HasKey(Judged(k), "oper_status")
                 /\ PreHasField(prelearnt["Interface"], k[2], k[3], "oper_status") )
               => IF Judged(k)["oper_status"] # PreField(k, "oper_status")
                  THEN VerdictOf(k).result = "failed" /\ VerdictOf(k).rule = "status"
                  ELSE VerdictOf(k).rule # "status"
        /\ \A k \in Evaluated("interface_in_half_duplex") :
               ( /\ HasKey(Judged(k), "duplex_mode")
                 /\ PreHasField(prelearnt["Interface"], k[2], k[3], "duplex_mode") )
               => IF Judged(k)["duplex_mode"] # PreField(k, "duplex_mode")
                  THEN VerdictOf(k).result = "failed"
                  ELSE VerdictOf(k).result = "passed"

\* C12: in a pre-only run an interface in half duplex fails the duplex check
\* when enabled and is skipped when disabled; with any other duplex_mode it
\* passes.
C12_PreOnlyDuplex ==
    ~job.post =>
        \A k \in Evaluated("interface_in_half_duplex") :
            HasKey(Judged(k), "duplex_mode") =>
                LET interface == Judged(k)
                    v == VerdictOf(k)
                IN  /\ (interface["duplex_mode"] = "half" /\ HasKey(interface, "enabled"))
                           => IF interface["enabled"]
                              THEN v.result = "failed" /\ v.rule = "duplex"
                              ELSE v.result = "skipped" /\ v.rule = "duplex"
                    /\ interface["duplex_mode"] # "half" => v.result = "passed"

\* a pre-only run that failed an enabled interface in half duplex
C12_Witness ==
    /\ ~job.post
    /\ \E k \in Evaluated("interface_in_half_duplex") :
           /\ HasKey(Judged(k), "duplex_mode") /\ HasKey(Judged(k), "enabled")
           /\ Judged(k)["duplex_mode"] = "half" /\ Judged(k)["enabled"]
           /\ VerdictOf(k).result = "failed"

\* the rate counters of an interface that are present and 0
ZeroRates(interface) ==
    {r \in RateCounters :
        HasKey(interface["counters"]["rate"], r) /\ interface["counters"]["rate"][r] = 0}

\* the oper_status check ends the step of this interface in a pre-only run
StatusEndsStep(interface) == HasKey(interface, "oper_status") /\ interface["oper_status"] = "down"

\* C13: in a pre-only run an interface with rate counters whose status check
\* did not end the step fails the rate check iff a rate counter is 0, the
\* message reports exactly the rate counters that are 0, and it passes
\* otherwise.
C13_PreOnlyRates ==
    ~job.post =>
        \A k \in Evaluated("interface_or_traffic_down") :
            ( /\ HasKey(Judged(k), "counters")
              /\ HasKey(Judged(k)["counters"], "rate")
              /\ ~StatusEndsStep(Judged(k)) )
            => LET zero == ZeroRates(Judged(k))
                   v == VerdictOf(k)
               IN  /\ v.result = "failed" <=> zero # {}
                   /\ zero # {} => v.rule = "rate" /\ v.detail = [r \in zero |-> 0]
                   /\ zero = {} => v.result = "passed"

\* a pre-only run that failed an interface that is up with both rates at 0
C13_Witness ==
    /\ ~job.post
    /\ \E k \in Evaluated("interface_or_traffic_down") :
           /\ HasKey(Judged(k), "oper_status") /\ Judged(k)["oper_status"] = "up"
           /\ VerdictOf(k).result = "failed"
           /\ DOMAIN VerdictOf(k).detail = RateCounters

\* the value a rate counter of the judged interface had in the pre snapshot
PreRate(k, r) == prelearnt["Interface"][k[2]][k[3]]["counters"]["rate"][r]

\* the judged interface has rate counters and its step reaches their check
RatesJudged(k) ==
    /\ HasKey(Judged(k), "counters")
    /\ HasKey(Judged(k)["counters"], "rate")
    /\ ~StatusEndsStep(Judged(k))

\* C14: in a post run an interface with a rate counter that was not 0 in
\* the pre snapshot and is 0 in the post snapshot ends in a failed result
\* of the rate check that reports that rate counter with its value.
C14_StalledRateFails ==
    job.post =>
        \A k \in Evaluated("interface_or_traffic_down") :
            RatesJudged(k) =>
                \A r \in RateCounters :
                    ( /\ HasKey(Judged(k)["counters"]["rate"], r)
                      /\ PreHasRate(prelearnt["Interface"], k[2], k[3], r)
                      /\ Judged(k)["counters"]["rate"][r] = 0
                      /\ PreRate(k, r) # 0 )
                    => /\ VerdictOf(k).result = "failed"
                       /\ VerdictOf(k).rule = "rate"
                       /\ HasKey(VerdictOf(k).detail, r)
                       /\ VerdictOf(k).detail[r] = 0

\* C15: in a post run an interface with a rate counter that was 0 in the
\* pre snapshot and is not 0 in the post snapshot fails the rate check.
C15_ResumedRateFails ==
    job.post =>
        \A k \in Evaluated("interface_or_traffic_down") :
            RatesJudged(k) =>
                \A r \in RateCounters :
                    ( /\ HasKey(Judged(k)["counters"]["rate"], r)
                      /\ PreHasRate(prelearnt["Interface"], k[2], k[3], r)
                      /\ Judged(k)["counters"]["rate"][r] # 0
                      /\ PreRate(k, r) = 0 )
                    => VerdictOf(k).result = "failed"

\* the fields of an interface record that the tests read
JudgedFields == {"counters", "oper_status", "duplex_mode", "enabled"}

\* C16: in a pre-only run an interface whose record lacks a field never
\* ends in an error, and the test of an absent field does not fail it.
C16_AbsentFieldHarmless ==
    ~job.post =>
        \A test \in InterfaceTests : \A k \in Evaluated(test) :
            (\E field \in JudgedFields : ~HasKey(Judged(k), field))
            => /\ VerdictOf(k).result # "errored"
               /\ (test = "interface_errors" /\ ~HasKey(Judged(k), "counters"))
                      => VerdictOf(k).result # "failed"
               /\ (test = "interface_in_half_duplex" /\ ~HasKey(Judged(k), "duplex_mode"))
                      => VerdictOf(k).result # "failed"
               /\ (test = "interface_or_traffic_down" /\ ~HasKey(Judged(k), "oper_status"))
                      => VerdictOf(k).rule # "status"

\* C17: a null interface never gets a passed or failed result, in any test
\* of either stage.
C17_ExcludedNeverJudged ==
    \A test \in InterfaceTests : \A k \in Evaluated(test) :
        k[3] = "Null0" => VerdictOf(k).result \notin {"passed", "failed"}

\* the interface snapshots of device d in the two stage directories
PreSnapshot(d) == files["pre"][FileName(d, "interface")]

PostSnapshot(d) == files["post"][FileName(d, "interface")]

\* the post snapshot of d is its pre snapshot but for counter c of interface
\* n, up and enabled, which rose from 0; the other devices did not change
RoseOnly(d, n, c) ==
    /\ \A x \in Devices : Readable("pre", FileName(x, "interface"))
                          /\ Readable("post", FileName(x, "interface"))
    /\ \A x \in Devices \ {d} : PostSnapshot(x) = PreSnapshot(x)
    /\ HasKey(PreSnapshot(d), n) /\ HasKey(PostSnapshot(d), n)
    /\ \A interface \in {PreSnapshot(d)[n], PostSnapshot(d)[n]} :
           /\ HasKey(interface, "oper_status") /\ interface["oper_status"] = "up"
           /\ HasKey(interface, "enabled") /\ interface["enabled"]
           /\ HasKey(interface, "counters") /\ HasKey(interface["counters"], c)
    /\ PreSnapshot(d)[n]["counters"][c] = 0
    /\ PostSnapshot(d)[n]["counters"][c] > 0
    /\ PostSnapshot(d) =
           [PreSnapshot(d) EXCEPT ![n]["counters"][c] = PostSnapshot(d)[n]["counters"][c]]

FailedSteps == {k \in DOMAIN verdicts["Interface"] : verdicts["Interface"][k].result = "failed"}

\* C18: a post run whose only change is one tracked counter of one interface
\* (up, enabled) rising from 0 to v ends with exactly one failed step, the
\* interface_errors step of that interface, which reports the counter with
\* v; the interface_or_traffic_down step of the interface passed.
C18_SingleCounterRise ==
    (job.post /\ pc["Interface"] = "done") =>
        \A d \in Devices, n \in {"Gi0", "Null0"}, c \in TrackedCounters :
            RoseOnly(d, n, c) =>
                /\ FailedSteps = {<<"interface_errors", d, n>>}
                /\ verdicts["Interface"][<<"interface_errors", d, n>>].reason =
                       "difference between pre and post"
                /\ verdicts["Interface"][<<"interface_errors", d, n>>].detail =
                       (c :> PostSnapshot(d)[n]["counters"][c])
                /\ HasKey(verdicts["Interface"], <<"interface_or_traffic_down", d, n>>)
                /\ verdicts["Interface"][<<"interface_or_traffic_down", d, n>>].result = "passed"

\* a post run that ended after in_errors of Gi0 rose from 0 while
\* out_discard stayed at a positive value
C18_Witness ==
    /\ job.post /\ pc["Interface"] = "done"
    /\ RoseOnly("d1", "Gi0", "in_errors")
    /\ PreSnapshot("d1")["Gi0"]["counters"]["out_discard"] > 0
    /\ FailedSteps # {}

\* the running configuration of d was learnt and its snapshot written
RunningCaptured(d) ==
    /\ <<"Config", "learnt", d, "config_running">> \in events
    /\ Readable(ReportDirectory, FileName(d, "config_running"))

\* C19: the key deletion of learn_configs is idempotent: applied to the
\* document it produced from a captured running configuration it changes
\* nothing.
C19_NormalizeIdempotent ==
    \A d \in Devices :
        RunningCaptured(d) =>
            delete_unwanted_keys(delete_unwanted_keys(dev[d].running))
                = delete_unwanted_keys(dev[d].running)

\* C20: for every pattern, the key deletion applied to a captured running
\* configuration removes every line that matches the pattern, top-level or
\* nested, and nothing else; with no match the document is unchanged.
C20_RemovesEveryMatch ==
    \A d \in Devices :
        RunningCaptured(d) =>
            \A r \in 1..Len(keys_regex_to_delete_from_config) :
                LET key_regex == keys_regex_to_delete_from_config[r]
                    config == dev[d].running
                    Kept(line) == ~RegexMatches(key_regex, line.key)
                    kept == SelectSeq(config, Kept)
                IN  delete_key_regex(config, key_regex) =
                        [i \in 1..Len(kept) |->
                            [key |-> kept[i].key,
                             sub |-> {c \in kept[i].sub : ~RegexMatches(key_regex, c)}]]

\* the device steps of compare_pre_post_configs_running that have a result
Compared ==
    {k \in DOMAIN verdicts["Config"] : k[1] = "compare_pre_post_configs_running"}

\* C21: in a post run the comparison step of a device whose pre and post
\* config_running were both read passes iff the two documents are equal and
\* fails otherwise.
C21_CompareIffEqual ==
    job.post =>
        \A k \in Compared :
            ( /\ HasKey(prelearnt["Config"][k[2]], "config_running")
              /\ HasKey(learnt["Config"][k[2]], "config_running") )
            => IF prelearnt["Config"][k[2]]["config_running"]
                      = learnt["Config"][k[2]]["config_running"]
               THEN verdicts["Config"][k].result = "passed"
               ELSE verdicts["Config"][k].result = "failed"

\* a post run that compared equal documents on one device and documents
\* that differ on the other
C21_Witness ==
    /\ job.post
    /\ \E k \in Compared : verdicts["Config"][k].result = "passed"
    /\ \E k \in Compared : verdicts["Config"][k].result = "failed"

\* the reasons of the results that come from a comparison with the pre stage
BaselineReasons ==
    {"no pre learnt information", "difference between pre and post",
     "pre and post are different", "differences", "the same"}

Written ==
    {<<e[1], e[3], FileName(e[4], e[5])>> : e \in {x \in events : x[2] = "write"}}

\* C23: whatever the interleaving of the tasks of a run, a snapshot file of
\* the stage directory is written by one task only: two writes of the same
\* file in the same directory come from the same task.
C23_SingleWriter ==
    \A w1, w2 \in Written :
        (w1[2] = w2[2] /\ w1[3] = w2[3]) => w1[1] = w2[1]

\* a job whose two tasks are both in their capture and have both written a
\* snapshot of the same device to the stage directory
C23_Witness ==
    /\ job.kind = "job"
    /\ \E d \in Devices :
           /\ <<"Interface", ReportDirectory, FileName(d, "interface")>> \in Written
           /\ <<"Config", ReportDirectory, FileName(d, "config_running")>> \in Written
    /\ pc["Interface"] = "learn" /\ pc["Config"] = "learn"

\* C24: the rerun of a pre stage that was cut short after a snapshot was
\* written, with every device reachable and supported, ends with its
\* subsections neither failed nor errored, and with every interface test
\* run on every device.
C24_RerunEvaluates ==
    ( /\ job.resumed /\ ~job.post
      /\ pc["Interface"] = "done"
      /\ \A d \in Devices : dev[d].reach /\ dev[d].os \in SupportedOs )
    => /\ CsOk(cs["Interface"])
       /\ \A test \in InterfaceTests :
              /\ HasKey(tc["Interface"], test)
              /\ DOMAIN learnt["Interface"] = Devices

\* the directory of the stage of the run: post when --post was given
StageOfRun == IF job.post THEN "post" ELSE "pre"

\* C25: the directory arguments alone fix the stage.  In a run with pre and
\* post every directory made and every snapshot written is in post, what a
\* testcase loaded is the content of the post files and its baseline the
\* content of the pre files; in a run with pre only all of this is in pre
\* and no baseline is loaded.
C25_StageFromArguments ==
    /\ \A e \in events : e[2] \in {"mkdir", "write"} => e[3] = StageOfRun
    /\ \A d \in DOMAIN learnt["Interface"] :
           /\ Readable(StageOfRun, <<d, "interface">>)
           /\ learnt["Interface"][d] = files[StageOfRun][<<d, "interface">>]
    /\ \A d \in DOMAIN learnt["Config"] : \A k \in DOMAIN learnt["Config"][d] :
           /\ Readable(StageOfRun, <<d, k>>)
           /\ learnt["Config"][d][k] = files[StageOfRun][<<d, k>>]
    /\ IF job.post
       THEN /\ \A d \in DOMAIN prelearnt["Interface"] :
                   /\ Readable("pre", <<d, "interface">>)
                   /\ prelearnt["Interface"][d] = files["pre"][<<d, "interface">>]
            /\ \A d \in DOMAIN prelearnt["Config"] : \A k \in DOMAIN prelearnt["Config"][d] :
                   /\ Readable("pre", <<d, k>>)
                   /\ prelearnt["Config"][d][k] = files["pre"][<<d, k>>]
       ELSE /\ prelearnt["Interface"] = EmptyMap
            /\ \A d \in DOMAIN prelearnt["Config"] : prelearnt["Config"][d] = EmptyMap

\* a post run of the job in which both tasks wrote their snapshots to post
\* and loaded them with a baseline from pre that differs from them
C25_Witness ==
    /\ job.post
    /\ \E e \in events : e[1] = "Interface" /\ e[2] = "write" /\ e[3] = "post"
    /\ \E e \in events : e[1] = "Config" /\ e[2] = "write" /\ e[3] = "post"
    /\ \E d \in DOMAIN learnt["Interface"] :
           /\ HasKey(prelearnt["Interface"], d)
           /\ prelearnt["Interface"][d] # learnt["Interface"][d]
    /\ \E d \in DOMAIN learnt["Config"] :
           /\ HasKey(learnt["Config"][d], "config_running")
           /\ HasKey(prelearnt["Config"][d], "config_running")

\* C26: a device step of connect_to_device that ends skipped with the
\* device still disconnected (every attempt raised) has called connect()
\* four times: the first attempt and three more.
C26_FourAttempts ==
    \A k \in DOMAIN verdicts["Common"] :
        ( /\ k[1] = "connect_to_device"
          /\ verdicts["Common"][k].result = "skipped"
          /\ ~connected["Common"][k[2]] )
        => verdicts["Common"][k].detail["connect"] = 4

\* C27: once the common cleanup of a script is over no device is connected,
\* and a device step marked 'successfully disconnected' is the step of a
\* device that is not connected any more.
C27_DisconnectedAfterCleanup ==
    \A t \in Tasks :
        pc[t] = "done" =>
            /\ \A d \in Devices : ~connected[t][d]
            /\ \A k \in DOMAIN verdicts[t] :
                   ( /\ k[1] = "disconnect_from_device"
                     /\ verdicts[t][k].reason = "successfully disconnected" )
                   => ~connected[t][k[2]]

\* every tracked counter of the interface of step k has in the post
\* snapshot the value it has in the pre snapshot
SameCounters(k) ==
    /\ HasKey(Judged(k), "counters")
    /\ \A c \in TrackedCounters :
           HasKey(Judged(k)["counters"], c)
               => /\ PreHasCounter(prelearnt["Interface"], k[2], k[3], c)
                  /\ prelearnt["Interface"][k[2]][k[3]]["counters"][c] = Judged(k)["counters"][c]

\* C28: in a post run interface_errors passes every interface whose tracked
\* counters all have their pre value, whatever the value: the counters are
\* judged by their change, not by being greater than 0.
C28_EqualCountersPass ==
    job.post =>
        \A k \in Evaluated("interface_errors") :
            SameCounters(k) => VerdictOf(k).result = "passed"

\* a post run that passed an interface with a tracked counter greater than
\* 0 in both snapshots
C28_Witness ==
    /\ job.post
    /\ \E k \in Evaluated("interface_errors") :
           /\ SameCounters(k)
           /\ \E c \in TrackedCounters :
                  HasKey(Judged(k)["counters"], c) /\ Judged(k)["counters"][c] > 0
           /\ VerdictOf(k).result = "passed"

\* the failed-configuration snapshot of kind key of device d was read in the
\* testcase setup from the directory of the stage and holds something
FailedConfigFound(d, key) ==
    /\ HasKey(learnt["Config"], d)
    /\ HasKey(learnt["Config"][d], key)
    /\ learnt["Config"][d][key] = files[ReportDirectory][FileName(d, key)]
    /\ learnt["Config"][d][key] # EmptyMap

\* C29: once check_failed_configs ran, every device has a step for
\* config_failed and one for config_failed_startup, and a step is failed
\* exactly when its snapshot was read and is not empty; the other steps are
\* passed, whatever the result of the steps before them.
C29_FailedIffNonEmpty ==
    HasKey(tc["Config"], "check_failed_configs") =>
        \A d \in Devices, key \in {"config_failed", "config_failed_startup"} :
            /\ HasKey(verdicts["Config"], <<"check_failed_configs", d, key>>)
            /\ IF FailedConfigFound(d, key)
               THEN verdicts["Config"][<<"check_failed_configs", d, key>>].result = "failed"
               ELSE verdicts["Config"][<<"check_failed_configs", d, key>>].result = "passed"

\* check_failed_configs failed the config_failed step of the first device
\* and passed the steps after it, of the same device and of the next
C29_Witness ==
    /\ HasKey(tc["Config"], "check_failed_configs")
    /\ verdicts["Config"][<<"check_failed_configs", DeviceOrder[1], "config_failed">>].result = "failed"
    /\ verdicts["Config"][<<"check_failed_configs", DeviceOrder[1], "config_failed_startup">>].result = "passed"
    /\ verdicts["Config"][<<"check_failed_configs", DeviceOrder[2], "config_failed">>].result = "passed"
    /\ HasKey(learnt["Config"][DeviceOrder[2]], "config_failed")

\* C30: in a job whose two tasks find no stage directory, whatever the
\* interleaving of their create_report_directory subsections, no task ends
\* the subsection failed: one made the directory and the other was skipped.
C30_CreateRaceHarmless ==
    job.kind = "job" =>
        \A t \in {"Interface", "Config"} :
            HasKey(cs[t], "create_report_directory")
                => cs[t]["create_report_directory"] # "failed"

\* the stage directory was made in the current run: the run began without it
FreshDirectory == \E e \in events : e[2] = "mkdir" /\ e[3] = ReportDirectory

\* C31: in a job that began without its stage directory, whichever task
\* made it, once a testcase setup of the Interface task has read the
\* snapshots the task had connected to the testbed and written the
\* interface snapshot of every supported device.
C31_InterfaceCaptureHappens ==
    ( /\ job.kind = "job"
      /\ FreshDirectory
      /\ HasKey(tc["Interface"], "interface_errors.setup") )
    => /\ cs["Interface"]["connect"] # "skipped"
       /\ \A d \in Devices :
              dev[d].os \in SupportedOs
                  => <<"Interface", "write", ReportDirectory, d, "interface">> \in events

\* C32: no step of a post run changes the pre directory: its state and the
\* content of every file in it are after the step what they were before.
C32_PreDirectoryUntouched ==
    [][job'.post => (dirs'["pre"] = dirs["pre"] /\ files'["pre"] = files["pre"])]_vars

\* a post run of the job that is over: both tasks wrote their snapshots to
\* post, compared them with the snapshots of pre, which differ from them
C32_Witness ==
    /\ job.post /\ job.kind = "job"
    /\ pc["Interface"] = "done" /\ pc["Config"] = "done"
    /\ \E d \in Devices :
           /\ <<"Interface", "write", "post", d, "interface">> \in events
           /\ <<"Config", "write", "post", d, "config_running">> \in events
           /\ Readable("pre", FileName(d, "interface"))
           /\ Readable("pre", FileName(d, "config_running"))
           /\ files["pre"][FileName(d, "interface")] # files["post"][FileName(d, "interface")]
    /\ HasKey(tc["Interface"], "interface_errors")
    /\ HasKey(tc["Config"], "compare_pre_post_configs_running")

====
